---- MODULE Spec2Model ----
(***************************************************************************)
(* The GraphQL transport of the MRP front end: GraphQLService (request    *)
(* envelope, response normalisation, error classification) and            *)
(* authInterceptor (token attachment, 401 teardown), as a state machine.  *)
(***************************************************************************)
EXTENDS Integers, Sequences, FiniteSets, TLC

\* ------------------------------------------------------------------------
\* Bounds
\* ------------------------------------------------------------------------
MaxErrors == 2
MaxBaseLen == 3

\* the calls that may be in flight together
MaxCalls == 2

\* the categories or products of one batch call
MaxItems == 2

\* the pedido lookups that may be under way together
MaxLookups == 2

\* ------------------------------------------------------------------------
\* JavaScript values: a tag t and, where the type has one, a value v
\* ------------------------------------------------------------------------
JUndef == [t |-> "undefined"]
JNull == [t |-> "null"]
JStr(s) == [t |-> "string", v |-> s]
JNum(n) == [t |-> "number", v |-> n]
JBool(b) == [t |-> "boolean", v |-> b]
JArr(s) == [t |-> "array", v |-> s]
JObj(f) == [t |-> "object", v |-> f]
EmptyObj == JObj([k \in {} |-> JUndef])

Nullish(x) == x.t \in {"undefined", "null"}

Truthy(x) ==
  CASE x.t \in {"undefined", "null"} -> FALSE
    [] x.t = "string" -> x.v # ""
    [] x.t = "number" -> x.v # 0
    [] x.t = "boolean" -> x.v
    [] OTHER -> TRUE

\* o.k for a non-nullish o (a nullish o is a TypeError, which callers test)
Get(o, k) ==
  IF o.t = "object" /\ k \in DOMAIN o.v THEN o.v[k] ELSE JUndef

\* o?.k
OptGet(o, k) == IF Nullish(o) THEN JUndef ELSE Get(o, k)

\* `${x}`
TemplateStr(x) ==
  CASE x.t = "string" -> x.v
    [] x.t = "number" -> ToString(x.v)
    [] x.t = "boolean" -> (IF x.v THEN "true" ELSE "false")
    [] x.t = "undefined" -> "undefined"
    [] x.t = "null" -> "null"
    [] OTHER -> "[object Object]"

\* ------------------------------------------------------------------------
\* String functions of the ECMAScript library
\* ------------------------------------------------------------------------
Includes(s, sub) ==
  \E i \in 1..(Len(s) - Len(sub) + 1) : SubSeq(s, i, i + Len(sub) - 1) = sub

EndsWith(s, suf) ==
  Len(s) >= Len(suf) /\ SubSeq(s, Len(s) - Len(suf) + 1, Len(s)) = suf

\* s.slice(0, -1)
SliceDropLast(s) == IF Len(s) = 0 THEN s ELSE SubSeq(s, 1, Len(s) - 1)

UpperAlphabet == "ABCDEFGHIJKLMNOPQRSTUVWXYZ"
LowerAlphabet == "abcdefghijklmnopqrstuvwxyz"

LowerChar(c) ==
  IF \E k \in 1..26 : SubSeq(UpperAlphabet, k, k) = c
  THEN LET k == CHOOSE j \in 1..26 : SubSeq(UpperAlphabet, j, j) = c
       IN SubSeq(LowerAlphabet, k, k)
  ELSE c

RECURSIVE ToLowerCase(_)
ToLowerCase(s) ==
  IF s = "" THEN "" ELSE LowerChar(SubSeq(s, 1, 1)) \o ToLowerCase(Tail(s))

\* an element of Array.prototype.join: null and undefined print as nothing
JoinElem(x) == IF Nullish(x) THEN "" ELSE TemplateStr(x)

RECURSIVE Join(_, _)
Join(xs, sep) ==
  IF Len(xs) = 0 THEN ""
  ELSE IF Len(xs) = 1 THEN JoinElem(xs[1])
  ELSE JoinElem(xs[1]) \o sep \o Join(Tail(xs), sep)

\* ------------------------------------------------------------------------
\* Errors and RxJS notifications
\* ------------------------------------------------------------------------
NewError(msg) == [cls |-> "Error", message |-> msg]
NewTypeError(msg) == [cls |-> "TypeError", message |-> msg]

\* the error HttpClient raises for a failed exchange; error is the parsed body
HttpErrorResponse(url, status, body) ==
  [cls |-> "HttpErrorResponse", status |-> status,
   message |-> "Http failure response for " \o url \o ": " \o ToString(status),
   error |-> body]

NextN(v) == [kind |-> "next", value |-> v]
ErrorN(e) == [kind |-> "error", error |-> e]
CompleteN == [kind |-> "complete"]

Return(v) == [kind |-> "return", value |-> v]
Throw(e) == [kind |-> "throw", error |-> e]

\* throwError(() => e)
ThrowError(e) == <<ErrorN(e)>>

\* ------------------------------------------------------------------------
\* GraphQLService
\* ------------------------------------------------------------------------
\* the endpoint without the trailing slash removed
ResolveGraphqlUrlNoTrim(apiUrlCfg) == apiUrlCfg \o "/graphql"

\* constructor: the endpoint from environment.apiUrl
ResolveGraphqlUrl(apiUrlCfg) ==
  LET baseUrl == IF EndsWith(apiUrlCfg, "/") THEN SliceDropLast(apiUrlCfg)
                 ELSE apiUrlCfg
  IN baseUrl \o "/graphql"

\* headers that would leave the token to authInterceptor
BuildHeadersContentType(tok) ==
  [h \in {"Content-Type"} |-> "application/json"]

\* execute: new HttpHeaders({'Content-Type': ..., ...(token && {Authorization})})
BuildHeaders(tok) ==
  IF Truthy(tok)
  THEN [h \in {"Content-Type", "Authorization"} |->
          IF h = "Content-Type" THEN "application/json"
          ELSE "Bearer " \o TemplateStr(tok)]
  ELSE [h \in {"Content-Type"} |-> "application/json"]

\* Object.keys(variables).length > 0
HasKeys(x) ==
  CASE x.t = "object" -> DOMAIN x.v # {}
    [] x.t = "array" -> Len(x.v) > 0
    [] x.t = "string" -> Len(x.v) > 0
    [] OTHER -> FALSE

\* variables and operationName sent whatever they hold
BuildBodyAllKeys(operation, variables, operationName) ==
  [k \in {"query", "variables", "operationName"} |->
     CASE k = "query" -> JStr(operation)
       [] k = "variables" -> variables
       [] OTHER -> operationName]

\* execute: the body of the POST
BuildBody(operation, variables, operationName) ==
  LET keys == {"query"}
                \cup (IF Truthy(variables) /\ HasKeys(variables)
                      THEN {"variables"} ELSE {})
                \cup (IF Truthy(operationName) THEN {"operationName"} ELSE {})
  IN [k \in keys |->
        CASE k = "query" -> JStr(operation)
          [] k = "variables" -> variables
          [] OTHER -> operationName]

\* x.length > 0
LengthPositive(x) ==
  CASE x.t = "array" -> Len(x.v) > 0
    [] x.t = "string" -> Len(x.v) > 0
    [] OTHER -> FALSE

\* createGraphQLError: the message built for one error
ErrorEntryMessage(err) ==
  LET code == OptGet(Get(err, "extensions"), "code")
      m1 == IF Truthy(code)
            THEN JStr("[" \o TemplateStr(code) \o "] "
                      \o TemplateStr(Get(err, "message")))
            ELSE Get(err, "message")
      path == Get(err, "path")
  IN IF Truthy(path) /\ LengthPositive(path) /\ path.t = "array"
     THEN JStr(TemplateStr(m1) \o " (path: " \o Join(path.v, ".") \o ")")
     ELSE m1

\* createGraphQLError throws a TypeError when errors has no map(), when an
\* entry is null or undefined, or when a non-empty path has no join()
CreateThrows(errors) ==
  \/ errors.t # "array"
  \/ \E i \in 1..Len(errors.v) :
       \/ Nullish(errors.v[i])
       \/ LET path == Get(errors.v[i], "path")
          IN Truthy(path) /\ LengthPositive(path) /\ path.t # "array"

\* the messages joined with a comma
createGraphQLErrorComma(errors) ==
  NewError(Join([i \in 1..Len(errors.v) |-> ErrorEntryMessage(errors.v[i])], ", "))

createGraphQLError(errors) ==
  NewError(Join([i \in 1..Len(errors.v) |-> ErrorEntryMessage(errors.v[i])], "; "))

\* data looked at before errors
MapProjectDataFirst(response) ==
  IF Nullish(response)
  THEN Throw(NewTypeError("Cannot read properties of null (reading 'errors')"))
  ELSE LET errs == Get(response, "errors")
           data == Get(response, "data")
       IN IF Truthy(data) THEN Return(data)
          ELSE IF Truthy(errs) /\ LengthPositive(errs) /\ ~CreateThrows(errs)
          THEN Throw(createGraphQLError(errs))
          ELSE Throw(NewError("La respuesta GraphQL no contiene datos"))

\* any errors member, an empty array too, taken as a failure
MapProjectAnyErrors(response) ==
  IF Nullish(response)
  THEN Throw(NewTypeError("Cannot read properties of null (reading 'errors')"))
  ELSE LET errs == Get(response, "errors")
           data == Get(response, "data")
       IN IF Truthy(errs)
          THEN IF CreateThrows(errs)
               THEN Throw(NewTypeError("errors.map is not a function"))
               ELSE Throw(createGraphQLError(errs))
          ELSE IF ~Truthy(data)
          THEN Throw(NewError("La respuesta GraphQL no contiene datos"))
          ELSE Return(data)

\* a null data member handed to the caller as the payload
MapProjectNullData(response) ==
  IF Nullish(response)
  THEN Throw(NewTypeError("Cannot read properties of null (reading 'errors')"))
  ELSE LET errs == Get(response, "errors")
           data == Get(response, "data")
       IN IF Truthy(errs) /\ LengthPositive(errs)
          THEN IF CreateThrows(errs)
               THEN Throw(NewTypeError("errors.map is not a function"))
               ELSE Throw(createGraphQLError(errs))
          ELSE IF data = JUndef
          THEN Throw(NewError("La respuesta GraphQL no contiene datos"))
          ELSE Return(data)

\* execute: the function given to map()
MapProject(response) ==
  IF Nullish(response)
  THEN Throw(NewTypeError("Cannot read properties of null (reading 'errors')"))
  ELSE LET errs == Get(response, "errors")
           data == Get(response, "data")
       IN IF Truthy(errs) /\ LengthPositive(errs)
          THEN IF CreateThrows(errs)
               THEN Throw(NewTypeError("errors.map is not a function"))
               ELSE Throw(createGraphQLError(errs))
          ELSE IF ~Truthy(data)
          THEN Throw(NewError("La respuesta GraphQL no contiene datos"))
          ELSE Return(data)

\* the failure logged and the stream completed without it
handleErrorSwallow(error) == <<CompleteN>>

handleError(error) ==
  LET errorMessage ==
        IF error.cls = "HttpErrorResponse"
        THEN CASE error.status = 0 ->
                    "Error de conexión. Verifica que el servidor esté disponible."
               [] error.status = 401 ->
                    "No autorizado. Por favor, inicia sesión nuevamente."
               [] error.status = 403 ->
                    "Acceso denegado. No tienes permisos para esta operación."
               [] error.status >= 500 ->
                    "Error del servidor. Por favor, intenta más tarde."
               [] OTHER ->
                    "Error HTTP " \o ToString(error.status) \o ": " \o error.message
        ELSE error.message
  IN ThrowError(NewError(errorMessage))

\* map(project): the first throw ends the stream with that error
RECURSIVE RxMapExecute(_)
RxMapExecute(src) ==
  IF src = <<>> THEN <<>>
  ELSE IF Head(src).kind = "next"
       THEN LET r == MapProject(Head(src).value)
            IN IF r.kind = "throw" THEN <<ErrorN(r.error)>>
               ELSE <<NextN(r.value)>> \o RxMapExecute(Tail(src))
       ELSE <<Head(src)>>

\* catchError(handleError): an error is replaced by what the handler returns
RECURSIVE RxCatchExecute(_)
RxCatchExecute(src) ==
  IF src = <<>> THEN <<>>
  ELSE IF Head(src).kind = "error" THEN handleError(Head(src).error)
       ELSE <<Head(src)>> \o RxCatchExecute(Tail(src))

\* execute: http.post(...).pipe(map(...), catchError(...))
ExecutePipe(src) == RxCatchExecute(RxMapExecute(src))

\* ------------------------------------------------------------------------
\* authInterceptor
\* ------------------------------------------------------------------------
isCloudinary(url) == Includes(url, "api.cloudinary.com")

publicEndpoints == <<"auth/login", "auth/register">>

isGraphQL(url) == Includes(url, "/graphql")

\* only the login endpoint taken as public
isPublicLoginOnly(url) == Includes(url, publicEndpoints[1])

isPublic(url) ==
  \E k \in 1..Len(publicEndpoints) : Includes(url, publicEndpoints[k])

\* a set() that would keep a header the caller has set
HeadersSetIfAbsent(headers, name, value) ==
  [h \in DOMAIN headers \cup {name} |->
     IF h \in DOMAIN headers THEN headers[h] ELSE value]

\* HttpHeaders.set(name, value)
HeadersSet(headers, name, value) ==
  [h \in DOMAIN headers \cup {name} |-> IF h = name THEN value ELSE headers[h]]

\* the header set whether or not there is a token
AuthReqAlways(req, tok) ==
  IF isPublic(req.url)
  THEN req
  ELSE [req EXCEPT !.headers =
          HeadersSet(req.headers, "Authorization", "Bearer " \o JoinElem(tok))]

\* the token attached to public requests too
AuthReqPublicToo(req, tok) ==
  IF ~Truthy(tok)
  THEN req
  ELSE [req EXCEPT !.headers =
          [h \in DOMAIN req.headers \cup {"Authorization"} |->
             IF h = "Authorization" THEN "Bearer " \o TemplateStr(tok)
             ELSE req.headers[h]]]

\* the request handed to next(): req itself or a clone with the bearer token
AuthReq(req, tok) ==
  IF isPublic(req.url) \/ ~Truthy(tok)
  THEN req
  ELSE [req EXCEPT !.headers =
          HeadersSet(req.headers, "Authorization", "Bearer " \o TemplateStr(tok))]

\* Cloudinary requests treated like the others
ForwardedNoBypass(req, tok) == AuthReq(req, tok)

Forwarded(req, tok) == IF isCloudinary(req.url) THEN req ELSE AuthReq(req, tok)

\* the predicate given to graphqlErrors.some(): "true", "false" or "throw"
AuthErrorEntry(err) ==
  IF Nullish(err) THEN "throw"
  ELSE LET msg == Get(err, "message")
           code == OptGet(Get(err, "extensions"), "code")
       IN IF Nullish(msg)
          THEN IF code = JStr("UNAUTHENTICATED") THEN "true" ELSE "false"
          ELSE IF msg.t # "string" THEN "throw"
          ELSE IF \/ Includes(ToLowerCase(msg.v), "unauthorized")
                  \/ Includes(ToLowerCase(msg.v), "authentication")
                  \/ code = JStr("UNAUTHENTICATED")
               THEN "true" ELSE "false"

\* graphqlErrors.some(...): entries are tried in order up to the first hit
RECURSIVE SomeAuthError(_)
SomeAuthError(errs) ==
  IF Len(errs) = 0 THEN "false"
  ELSE LET r == AuthErrorEntry(Head(errs))
       IN IF r = "false" THEN SomeAuthError(Tail(errs)) ELSE r

Teardown == <<"cerrarSesion", "navigate /login">>

\* the body of a GraphQL 401 not looked at
InterceptCatchNoBody(url, error) ==
  IF error.status = 401 /\ ~isPublic(url)
  THEN [effects |-> Teardown, out |-> ThrowError(error)]
  ELSE [effects |-> <<>>, out |-> ThrowError(error)]

\* catchError() with other conditions in the place of its two tests: the
\* one that takes the failure for a lost session, the one that reads the body
InterceptCatchVariant(url, error, lostSession, readsBody) ==
  LET errs == OptGet(error.error, "errors")
      rethrow == ThrowError(error)
      typeError == ThrowError(NewTypeError("graphqlErrors.some is not a function"))
  IN IF lostSession
     THEN IF readsBody
          THEN IF errs.t # "array"
               THEN [effects |-> <<>>, out |-> typeError]
               ELSE LET hasAuthError == SomeAuthError(errs.v)
                    IN CASE hasAuthError = "throw" ->
                              [effects |-> <<>>, out |-> typeError]
                         [] hasAuthError = "true" ->
                              [effects |-> Teardown, out |-> rethrow]
                         [] OTHER -> [effects |-> <<>>, out |-> rethrow]
          ELSE [effects |-> Teardown, out |-> rethrow]
     ELSE [effects |-> <<>>, out |-> rethrow]

\* a GraphQL 401 with no errors member left alone
InterceptCatchErrorsOnly(url, error) ==
  IF /\ error.status = 401 /\ ~isPublic(url) /\ isGraphQL(url)
     /\ ~Truthy(OptGet(error.error, "errors"))
  THEN [effects |-> <<>>, out |-> ThrowError(error)]
  ELSE InterceptCatchVariant(url, error, error.status = 401 /\ ~isPublic(url),
         isGraphQL(url) /\ Truthy(OptGet(error.error, "errors")))

\* the body read for every target, GraphQL or not
InterceptCatchAllBodies(url, error) ==
  InterceptCatchVariant(url, error, error.status = 401 /\ ~isPublic(url),
    Truthy(OptGet(error.error, "errors")))

\* a 403 taken for a lost session as well
InterceptCatchForbidden(url, error) ==
  InterceptCatchVariant(url, error,
    error.status \in {401, 403} /\ ~isPublic(url),
    isGraphQL(url) /\ Truthy(OptGet(error.error, "errors")))

\* the function given to catchError(): the side effects and what is raised
InterceptCatch(url, error) ==
  LET errs == OptGet(error.error, "errors")
      rethrow == ThrowError(error)
      typeError == ThrowError(NewTypeError("graphqlErrors.some is not a function"))
  IN IF error.status = 401 /\ ~isPublic(url)
     THEN IF isGraphQL(url) /\ Truthy(errs)
          THEN IF errs.t # "array"
               THEN [effects |-> <<>>, out |-> typeError]
               ELSE LET hasAuthError == SomeAuthError(errs.v)
                    IN CASE hasAuthError = "throw" ->
                              [effects |-> <<>>, out |-> typeError]
                         [] hasAuthError = "true" ->
                              [effects |-> Teardown, out |-> rethrow]
                         [] OTHER -> [effects |-> <<>>, out |-> rethrow]
          ELSE [effects |-> Teardown, out |-> rethrow]
     ELSE [effects |-> <<>>, out |-> rethrow]

\* catchError() put on Cloudinary requests as well
InterceptPipeUploadsToo(url, src) ==
  IF src = <<>> \/ Head(src).kind # "error"
  THEN [effects |-> <<>>, out |-> src]
  ELSE InterceptCatchVariant(url, Head(src).error,
         Head(src).error.status = 401 /\ ~isPublic(url),
         isGraphQL(url) /\ Truthy(OptGet(Head(src).error.error, "errors")))

\* next(authReq).pipe(catchError(...)), or next(req) alone for Cloudinary
InterceptPipe(url, src) ==
  IF isCloudinary(url) \/ src = <<>> \/ Head(src).kind # "error"
  THEN [effects |-> <<>>, out |-> src]
  ELSE InterceptCatch(url, Head(src).error)

\* ------------------------------------------------------------------------
\* HttpClient: what the backend of the exchange emits for a response
\* ------------------------------------------------------------------------
HttpSource(url, resp) ==
  IF resp.ok THEN <<NextN(resp.body), CompleteN>>
  ELSE <<ErrorN(HttpErrorResponse(url, resp.status, resp.body))>>

\* ------------------------------------------------------------------------
\* Inputs
\* ------------------------------------------------------------------------
Tokens == {"T1", "T2"}

\* environment.apiUrl as configured
ConfiguredApiUrl == "http://localhost:8081/mrp/"

Documents == {"query { ping }", "mutation { save }"}

VariablesIn == {JUndef, EmptyObj, JObj([id |-> JNum(1)])}

OperationNames == {JUndef, JStr(""), JStr("Ping")}

\* targets of the services that send no header of their own
HttpUrls ==
  {"http://localhost:8081/mrp/user",
   "http://localhost:8081/mrp/auth/login",
   "http://localhost:8081/auth/register/graphql",
   "https://api.cloudinary.com/v1/upload",
   "https://api.cloudinary.com/auth/login/graphql"}

NoHeaders == [h \in {} |-> ""]

\* OpenaiService sets its own Authorization header
ApiKeyHeaders ==
  [h \in {"Content-Type", "Authorization"} |->
     IF h = "Content-Type" THEN "application/json" ELSE "Bearer sk-key"]

OpenaiUrl == "https://api.openai.com/v1/chat/completions"

\* the requests of the services that call HttpClient themselves
HttpRequests ==
  {[url |-> u, headers |-> NoHeaders, body |-> EmptyObj] : u \in HttpUrls}
    \cup {[url |-> OpenaiUrl, headers |-> ApiKeyHeaders, body |-> EmptyObj]}

ErrorEntries ==
  {JObj([message |-> JStr("Not found"),
         extensions |-> JObj([code |-> JStr("NOT_FOUND")])]),
   JObj([message |-> JStr("Unauthorized access"),
         path |-> JArr(<<JStr("a"), JStr("b")>>)]),
   JObj([message |-> JStr("Token expired"),
         extensions |-> JObj([code |-> JStr("UNAUTHENTICATED")]),
         path |-> JArr(<<JStr("user"), JNum(0)>>)]),
   JObj([message |-> JStr("Authentication required"), path |-> JArr(<<>>)]),
   EmptyObj}

ErrorLists == UNION {[1..n -> ErrorEntries] : n \in 0..MaxErrors}

\* the errors member of a body: absent, null, not an array, or a list
ErrorsMembers ==
  {JUndef, JNull, JStr("oops")} \cup {JArr(l) : l \in ErrorLists}

DataMembers ==
  {JUndef, JNull, EmptyObj, JObj([ping |-> JBool(TRUE)])}

Envelope(errors, data) ==
  JObj([k \in (IF errors = JUndef THEN {} ELSE {"errors"})
                \cup (IF data = JUndef THEN {} ELSE {"data"}) |->
          IF k = "errors" THEN errors ELSE data])

Envelopes == {Envelope(e, d) : e \in ErrorsMembers, d \in DataMembers}

ErrorBodies == {JNull} \cup {Envelope(e, JUndef) : e \in ErrorsMembers}

\* bodies tried with the statuses whose handling reads no body
FewErrorBodies ==
  {JNull, Envelope(JStr("oops"), JUndef),
   Envelope(JArr(<<JObj([message |-> JStr("Token expired"),
                         extensions |-> JObj([code |-> JStr("UNAUTHENTICATED")])])>>),
            JUndef)}

OtherFailureStatuses == {0, 200, 400, 403, 500, 503}

Responses ==
  {[ok |-> TRUE, status |-> 200, body |-> b] : b \in Envelopes \cup {JNull}}
    \cup {[ok |-> FALSE, status |-> 401, body |-> b] : b \in ErrorBodies}
    \cup {[ok |-> FALSE, status |-> st, body |-> b] :
            st \in OtherFailureStatuses, b \in FewErrorBodies}

\* configured bases: every string of h and / up to MaxBaseLen
RECURSIVE BaseUrlsUpTo(_)
BaseUrlsUpTo(n) ==
  IF n = 0 THEN {""}
  ELSE BaseUrlsUpTo(n - 1)
         \cup {b \o c : b \in BaseUrlsUpTo(n - 1), c \in {"h", "/"}}

BaseUrls == BaseUrlsUpTo(MaxBaseLen)

PingResponses ==
  {[ok |-> TRUE, status |-> 200,
    body |-> Envelope(JUndef, JObj([ping |-> JBool(TRUE)]))],
   [ok |-> FALSE, status |-> 401, body |-> JNull],
   [ok |-> FALSE, status |-> 500, body |-> JNull]}

\* ------------------------------------------------------------------------
\* State
\* ------------------------------------------------------------------------
VARIABLES
  token,       \* AuthService: the session token, or null
  apiUrl,      \* environment.apiUrl
  graphqlUrl,  \* GraphQLService.graphqlUrl
  urlRead,     \* the last value getGraphQLUrl returned
  subs,        \* the calls: not made, built, on the wire, delivered
  posts,       \* the HTTP requests handed to the backend so far
  teardowns,   \* authInterceptor's teardowns: the token the request was
               \* sent under and the token cerrarSesion removed
  ml,          \* the call made on an ML service and its requests
  dev          \* DevolucionesComponent: its fields, its debounce, its lookups

vars == <<token, apiUrl, graphqlUrl, urlRead, subs, posts, teardowns, ml, dev>>

IdleSub == [phase |-> "idle"]

\* no call made on an ML service yet
IdleMl == [phase |-> "idle"]

\* DevolucionesComponent as constructed: no client, no products, nothing
\* typed, no lookup under way
NewComponent ==
  [clienteSeleccionado |-> JNull, productosDelPedido |-> JArr(<<>>),
   usuario_id |-> 0, typed |-> JUndef, last |-> JUndef, lookups |-> <<>>]

\* AuthService.obtenerToken()
obtenerToken == token

\* a call that has not been made yet
Free(i) == subs[i].phase = "idle"

Init ==
  /\ token \in {JNull} \cup {JStr(t) : t \in Tokens}
  /\ apiUrl = ConfiguredApiUrl
  /\ graphqlUrl = ResolveGraphqlUrl(apiUrl)
  /\ urlRead = JUndef
  /\ subs = <<IdleSub>>
  /\ posts = 0
  /\ teardowns = <<>>
  /\ ml = IdleMl
  /\ dev = NewComponent

\* AuthService: a login stores the token of the new session
IniciarSesion(t) ==
  /\ token' = JStr(t)
  /\ UNCHANGED <<ml, dev, apiUrl, graphqlUrl, urlRead, subs, posts, teardowns>>

\* AuthService.cerrarSesion() called by the user
CerrarSesion ==
  /\ token' = JNull
  /\ UNCHANGED <<ml, dev, apiUrl, graphqlUrl, urlRead, subs, posts, teardowns>>

getGraphQLUrl ==
  /\ urlRead' = JStr(graphqlUrl)
  /\ UNCHANGED <<ml, dev, token, apiUrl, graphqlUrl, subs, posts, teardowns>>

\* execute(): the request is built now and sent when the caller subscribes
execute(i, operation, variables, operationName) ==
  /\ Free(i)
  /\ subs' = [subs EXCEPT ![i] =
       [phase |-> "built", svc |-> "graphql", tokenAtCall |-> obtenerToken,
        args |-> [operation |-> operation, variables |-> variables,
                  operationName |-> operationName],
        req |-> [url |-> graphqlUrl,
                 headers |-> BuildHeaders(obtenerToken),
                 body |-> BuildBody(operation, variables, operationName)]]]
  /\ UNCHANGED <<ml, dev, token, apiUrl, graphqlUrl, urlRead, posts, teardowns>>

query(i, q, variables, operationName) == execute(i, q, variables, operationName)

\* a mutate that would pass the document alone
mutateDocumentOnly(i, m, variables, operationName) ==
  execute(i, m, JUndef, JUndef)

mutate(i, m, variables, operationName) == execute(i, m, variables, operationName)

\* the caller subscribes: http.post() runs the request through authInterceptor
Subscribe(i) ==
  /\ subs[i].phase = "built"
  /\ subs' = [subs EXCEPT ![i] =
       [phase |-> "sent", svc |-> "graphql", req |-> subs[i].req,
        tokenAtCall |-> subs[i].tokenAtCall, tokenAtDispatch |-> obtenerToken,
        wire |-> Forwarded(subs[i].req, obtenerToken)]]
  /\ posts' = posts + 1
  /\ UNCHANGED <<ml, dev, token, apiUrl, graphqlUrl, urlRead, teardowns>>

\* another service sends a request of its own through HttpClient
HttpSend(i, req) ==
  /\ Free(i)
  /\ subs' = [subs EXCEPT ![i] =
       [phase |-> "sent", svc |-> "http", req |-> req,
        tokenAtCall |-> obtenerToken, tokenAtDispatch |-> obtenerToken,
        wire |-> Forwarded(req, obtenerToken)]]
  /\ posts' = posts + 1
  /\ UNCHANGED <<ml, dev, token, apiUrl, graphqlUrl, urlRead, teardowns>>

\* a pipeline that would send a failed request once more
RespondResend(i, resp) ==
  /\ subs[i].phase = "sent"
  /\ LET url == subs[i].req.url
         gate == InterceptPipe(url, HttpSource(url, resp))
         delivered == IF subs[i].svc = "graphql" THEN ExecutePipe(gate.out)
                      ELSE gate.out
     IN IF delivered[1].kind = "error" /\ posts < 3
        THEN /\ posts' = posts + 1
             /\ UNCHANGED <<token, subs, teardowns>>
        ELSE /\ subs' = [subs EXCEPT ![i] =
                  [phase |-> "done", svc |-> subs[i].svc, url |-> url,
                   response |-> resp, effects |-> gate.effects,
                   raised |-> gate.out, delivered |-> delivered]]
             /\ token' = IF gate.effects = <<>> THEN token ELSE JNull
             /\ teardowns' = IF gate.effects = <<>> THEN teardowns
                             ELSE Append(teardowns,
                                    [sent |-> subs[i].tokenAtDispatch,
                                     ended |-> token])
             /\ posts' = posts
  /\ UNCHANGED <<ml, dev, apiUrl, graphqlUrl, urlRead>>

\* a teardown that would spare a session newer than the request's
RespondOwnSession(i, resp) ==
  /\ subs[i].phase = "sent"
  /\ LET url == subs[i].req.url
         gate == InterceptPipe(url, HttpSource(url, resp))
         delivered == IF subs[i].svc = "graphql" THEN ExecutePipe(gate.out)
                      ELSE gate.out
         torn == gate.effects # <<>> /\ token = subs[i].tokenAtDispatch
     IN /\ subs' = [subs EXCEPT ![i] =
             [phase |-> "done", svc |-> subs[i].svc, url |-> url,
              response |-> resp,
              effects |-> IF torn THEN gate.effects ELSE <<>>,
              raised |-> gate.out, delivered |-> delivered]]
        /\ token' = IF torn THEN JNull ELSE token
        /\ teardowns' = IF torn
                        THEN Append(teardowns,
                               [sent |-> subs[i].tokenAtDispatch, ended |-> token])
                        ELSE teardowns
  /\ UNCHANGED <<ml, dev, apiUrl, graphqlUrl, urlRead, posts>>

\* a result that would be shared with every call waiting on the same URL
RespondShared(i, resp) ==
  /\ subs[i].phase = "sent"
  /\ LET gate(j) == InterceptPipe(subs[j].req.url,
                      HttpSource(subs[j].req.url, resp))
         delivered(j) == IF subs[j].svc = "graphql" THEN ExecutePipe(gate(j).out)
                         ELSE gate(j).out
         served == {j \in DOMAIN subs :
                      /\ subs[j].phase = "sent"
                      /\ subs[j].req.url = subs[i].req.url}
     IN /\ subs' = [j \in DOMAIN subs |->
             IF j \in served
             THEN [phase |-> "done", svc |-> subs[j].svc, url |-> subs[j].req.url,
                   response |-> resp, effects |-> gate(j).effects,
                   raised |-> gate(j).out, delivered |-> delivered(j)]
             ELSE subs[j]]
        /\ token' = IF gate(i).effects = <<>> THEN token ELSE JNull
        /\ teardowns' = IF gate(i).effects = <<>> THEN teardowns
                        ELSE Append(teardowns,
                               [sent |-> subs[i].tokenAtDispatch, ended |-> token])
  /\ UNCHANGED <<ml, dev, apiUrl, graphqlUrl, urlRead, posts>>

\* the response arrives: authInterceptor's catchError, then execute's pipe;
\* neither pipe subscribes to the request again. A teardown calls
\* cerrarSesion on whatever session there is then.
Respond(i, resp) ==
  /\ subs[i].phase = "sent"
  /\ LET url == subs[i].req.url
         gate == InterceptPipe(url, HttpSource(url, resp))
         delivered == IF subs[i].svc = "graphql" THEN ExecutePipe(gate.out)
                      ELSE gate.out
     IN /\ subs' = [subs EXCEPT ![i] =
             [phase |-> "done", svc |-> subs[i].svc, url |-> url,
              response |-> resp, effects |-> gate.effects,
              raised |-> gate.out, delivered |-> delivered]]
        /\ token' = IF gate.effects = <<>> THEN token ELSE JNull
        /\ teardowns' = IF gate.effects = <<>> THEN teardowns
                        ELSE Append(teardowns,
                               [sent |-> subs[i].tokenAtDispatch, ended |-> token])
  /\ UNCHANGED <<ml, dev, apiUrl, graphqlUrl, urlRead, posts>>

\* the arguments of the methods that GraphQL does not offer
DetallesDTOs == {JArr(<<>>), JArr(<<JObj([cantidad |-> JNum(1)])>>)}

Ids == {1, 2}

\* a method that returns throwError(() => new Error(message)): its caller
\* gets the error on subscribing and nothing goes to the backend
DirectError(i, method, args, message) ==
  /\ Free(i)
  /\ subs' = [subs EXCEPT ![i] =
       [phase |-> "direct", method |-> method, args |-> args,
        delivered |-> ThrowError(NewError(message))]]
  /\ UNCHANGED <<ml, dev, token, apiUrl, graphqlUrl, urlRead, posts, teardowns>>

\* a batch creation that would answer an empty batch with an empty list
crearDetallesBatchEmptyOk(i, detallesDTO) ==
  /\ Free(i)
  /\ subs' = [subs EXCEPT ![i] =
       [phase |-> "direct", method |-> "crearDetallesBatch",
        args |-> <<detallesDTO>>,
        delivered |-> IF Len(detallesDTO.v) = 0
                      THEN <<NextN(JArr(<<>>)), CompleteN>>
                      ELSE ThrowError(NewError("crearDetallesBatch"))]]
  /\ UNCHANGED <<ml, dev, token, apiUrl, graphqlUrl, urlRead, posts, teardowns>>

\* DetallePedidoService.crearDetallesBatch
crearDetallesBatch(i, detallesDTO) ==
  DirectError(i, "crearDetallesBatch", <<detallesDTO>>,
    "crearDetallesBatch no está disponible directamente en GraphQL. "
      \o "Crea los detalles uno por uno usando crearDetalle() o considera usar "
      \o "múltiples mutations en una sola petición GraphQL.")

\* DevolucionesService.deleteDetallesDevolucion
deleteDetallesDevolucion(i, devolucionId, detalleId) ==
  DirectError(i, "deleteDetallesDevolucion", <<devolucionId, detalleId>>,
    "deleteDetallesDevolucion no está disponible directamente en GraphQL. "
      \o "Los detalles de devolución se manejan dentro de la devolución. "
      \o "Actualiza la devolución completa con updateDevolucion() sin incluir el detalle a eliminar.")

\* ProveedorMaterialService.getAllRelacionesProveedorMaterial
getAllRelacionesProveedorMaterial(i) ==
  DirectError(i, "getAllRelacionesProveedorMaterial", <<>>,
    "getAllRelacionesProveedorMaterial no está disponible en GraphQL. "
      \o "Usa getMaterialesPorProveedor o getProveedoresPorMaterial.")

Next ==
  \/ \E t \in Tokens : IniciarSesion(t)
  \/ CerrarSesion
  \/ \E i \in DOMAIN subs, d \in Documents, v \in VariablesIn,
        o \in OperationNames : query(i, d, v, o)
  \/ \E i \in DOMAIN subs, d \in Documents, v \in VariablesIn,
        o \in OperationNames : mutate(i, d, v, o)
  \/ \E i \in DOMAIN subs : Subscribe(i)
  \/ \E i \in DOMAIN subs, r \in HttpRequests : HttpSend(i, r)
  \/ \E i \in DOMAIN subs, r \in Responses : Respond(i, r)
  \/ \E i \in DOMAIN subs, d \in DetallesDTOs : crearDetallesBatch(i, d)
  \/ \E i \in DOMAIN subs, d \in Ids, e \in Ids :
        deleteDetallesDevolucion(i, d, e)
  \/ \E i \in DOMAIN subs : getAllRelacionesProveedorMaterial(i)

Spec == Init /\ [][Next]_vars

\* the service constructed over every configured base
InitUrl ==
  /\ token \in {JNull, JStr("T1")}
  /\ apiUrl \in BaseUrls
  /\ graphqlUrl = ResolveGraphqlUrl(apiUrl)
  /\ urlRead = JUndef
  /\ subs = <<IdleSub>>
  /\ posts = 0
  /\ teardowns = <<>>
  /\ ml = IdleMl
  /\ dev = NewComponent

NextUrl ==
  \/ getGraphQLUrl
  \/ CerrarSesion
  \/ \E i \in DOMAIN subs : query(i, "query { ping }", JUndef, JUndef)
  \/ \E i \in DOMAIN subs : Subscribe(i)
  \/ \E i \in DOMAIN subs, r \in PingResponses : Respond(i, r)

SpecUrl == InitUrl /\ [][NextUrl]_vars

\* several calls in flight at once, each answered in any order
InitConc ==
  /\ token \in {JNull, JStr("T1")}
  /\ apiUrl = ConfiguredApiUrl
  /\ graphqlUrl = ResolveGraphqlUrl(apiUrl)
  /\ urlRead = JUndef
  /\ subs = [i \in 1..MaxCalls |-> IdleSub]
  /\ posts = 0
  /\ teardowns = <<>>
  /\ ml = IdleMl
  /\ dev = NewComponent

NextConc ==
  \/ \E t \in Tokens : IniciarSesion(t)
  \/ CerrarSesion
  \/ \E i \in DOMAIN subs : query(i, "query { ping }", JUndef, JUndef)
  \/ \E i \in DOMAIN subs : mutate(i, "mutation { save }", JUndef, JUndef)
  \/ \E i \in DOMAIN subs : Subscribe(i)
  \/ \E i \in DOMAIN subs, r \in PingResponses : Respond(i, r)

SpecConc == InitConc /\ [][NextConc]_vars

\* ------------------------------------------------------------------------
\* MlForecastService and MlClusteringService
\* ------------------------------------------------------------------------
\* retry(2)
RetryCount == 2

\* environment.mlApiUrl
MlApiUrl == "http://localhost:8000"

\* a retry() that would never give up
ShouldRetryAlways(attempts) == TRUE

\* retry(2): a failed attempt is made again while fewer than two were
ShouldRetry(attempts) == attempts <= RetryCount

\* obj[key] = value
ObjSet(obj, key, value) ==
  JObj([k \in DOMAIN obj.v \cup {key} |-> IF k = key THEN value ELSE obj.v[k]])

\* MlForecastService.handleError
MlForecastHandleError(error) ==
  LET errorMessage ==
        IF error.cls = "HttpErrorResponse" /\ error.error.t = "ErrorEvent"
        THEN "Error del cliente: " \o error.error.message
        ELSE IF error.cls # "HttpErrorResponse"
        THEN "Error del servidor: undefined - " \o error.message
        ELSE CASE error.status = 404 ->
                    "Servicio ML no encontrado. Verifica que esté ejecutándose."
               [] error.status = 500 -> "Error interno del servicio ML."
               [] error.status = 0 ->
                    "No se puede conectar al servicio ML. Verifica la URL y CORS."
               [] OTHER -> "Error del servidor: " \o ToString(error.status)
                             \o " - " \o error.message
  IN ThrowError(NewError(errorMessage))

\* MlClusteringService.handleError
MlClusteringHandleError(error) ==
  LET errorMessage ==
        IF error.cls = "HttpErrorResponse" /\ error.error.t = "ErrorEvent"
        THEN "Error del cliente: " \o error.error.message
        ELSE IF error.cls # "HttpErrorResponse"
        THEN "Error del servidor: undefined - " \o error.message
        ELSE CASE error.status = 404 ->
                    "Servicio de clustering ML no encontrado."
               [] error.status = 400 ->
                    "Datos del producto inválidos para análisis ML."
               [] error.status = 500 ->
                    "Error interno del servicio de clustering ML."
               [] error.status = 0 ->
                    "No se puede conectar al servicio de clustering ML."
               [] OTHER -> "Error del servidor: " \o ToString(error.status)
                             \o " - " \o error.message
  IN ThrowError(NewError(errorMessage))

\* MlClusteringService.validateProductData
validateProductData(product) ==
  /\ Truthy(Get(product, "nombre"))
  /\ Truthy(Get(product, "categoria"))
  /\ Get(product, "precio").v > 0
  /\ Get(product, "costo").v >= 0
  /\ Get(product, "costo").v < Get(product, "precio").v
  /\ Get(product, "tiempo_fabricacion").v > 0

\* the categories and products the callers ask about
Categorias == {"sillas", "mesas"}

CategoriaLists == UNION {[1..n -> Categorias] : n \in 0..MaxItems}

Product(nombre, precio) ==
  JObj([nombre |-> JStr(nombre), categoria |-> JStr("sillas"),
        precio |-> JNum(precio), costo |-> JNum(1),
        tiempo_fabricacion |-> JNum(1)])

\* the last one costs what it sells for and fails the validation
Products == {Product("A", 2), Product("B", 2), Product("C", 1)}

ProductLists == UNION {[1..n -> Products] : n \in 0..MaxItems}

MlResponses ==
  {[ok |-> TRUE, status |-> 200, body |-> JObj([status |-> JStr("success")])],
   [ok |-> FALSE, status |-> 404, body |-> JNull],
   [ok |-> FALSE, status |-> 503, body |-> JNull]}

\* generateMockForecast, generateMockProductCluster: made-up figures under
\* a message that says so
MockForecast == JObj([status |-> JStr("success"),
                      message |-> JStr("Mock data - API ML no disponible")])

MockProductCluster == JObj([status |-> JStr("success"),
                            message |-> JStr("Mock analysis - API ML no disponible")])

\* http.post / http.get subscribed: the first attempt of a request
MlRequest(key, svc, url) ==
  [key |-> key, svc |-> svc, url |-> url, attempts |-> 1, state |-> "pending",
   tokenAtDispatch |-> obtenerToken]

\* the keys of an object filled from a list: each name once, in first order
RECURSIVE ObjectKeys(_)
ObjectKeys(names) ==
  IF Len(names) = 0 THEN <<>>
  ELSE LET rest == ObjectKeys(SubSeq(names, 1, Len(names) - 1))
           last == names[Len(names)]
       IN IF \E k \in 1..Len(rest) : rest[k] = last THEN rest
          ELSE Append(rest, last)

\* a call on an ML service, subscribed at once
MlCall(op, items, reqs, results, completed, out) ==
  /\ ml.phase = "idle"
  /\ ml' = [phase |-> "run", op |-> op, items |-> items, reqs |-> reqs,
            results |-> results, completed |-> completed, out |-> out]
  /\ posts' = posts + Len(reqs)
  /\ UNCHANGED <<token, apiUrl, graphqlUrl, urlRead, subs, teardowns, dev>>

predictForecast(categoria) ==
  MlCall("predictForecast", <<categoria>>,
    <<MlRequest(categoria, "forecast", MlApiUrl \o "/forecast")>>,
    EmptyObj, 0, <<>>)

predictSingleProduct(product) ==
  IF ~validateProductData(product)
  THEN MlCall("predictSingleProduct", <<Get(product, "nombre").v>>, <<>>,
         EmptyObj, 0, ThrowError(NewError("Datos del producto inválidos")))
  ELSE MlCall("predictSingleProduct", <<Get(product, "nombre").v>>,
         <<MlRequest(Get(product, "nombre").v, "clustering",
             MlApiUrl \o "/clustering/single")>>,
         EmptyObj, 0, <<>>)

getClusterAnalysis ==
  MlCall("getClusterAnalysis", <<>>,
    <<MlRequest("", "clustering", MlApiUrl \o "/clustering/analysis")>>,
    EmptyObj, 0, <<>>)

\* one request for each key of the requests object; the results go out when
\* completed equals categorias.length
getForecastMultipleCategories(categorias) ==
  LET keys == ObjectKeys(categorias)
  IN MlCall("getForecastMultipleCategories", categorias,
       [k \in 1..Len(keys) |->
          MlRequest(keys[k], "forecast", MlApiUrl \o "/forecast")],
       EmptyObj, 0, <<>>)

\* products.forEach: a product that fails the validation errors at once and
\* gets its mock entry during the subscription
RECURSIVE MockInvalid(_)
MockInvalid(products) ==
  IF Len(products) = 0 THEN EmptyObj
  ELSE LET rest == MockInvalid(SubSeq(products, 1, Len(products) - 1))
           last == products[Len(products)]
       IN IF validateProductData(last) THEN rest
          ELSE ObjSet(rest, Get(last, "nombre").v, MockProductCluster)

predictMultipleProducts(products) ==
  LET valid == SelectSeq(products, validateProductData)
      results == MockInvalid(products)
      completed == Len(products) - Len(valid)
  IN MlCall("predictMultipleProducts",
       [k \in 1..Len(products) |-> Get(products[k], "nombre").v],
       [k \in 1..Len(valid) |->
          MlRequest(Get(valid[k], "nombre").v, "clustering",
            MlApiUrl \o "/clustering/single")],
       results, completed,
       IF Len(valid) < Len(products) /\ completed = Len(products)
       THEN <<NextN(results), CompleteN>> ELSE <<>>)

Batch(op) == op \in {"getForecastMultipleCategories", "predictMultipleProducts"}

\* a response to an attempt: through authInterceptor, then retry(2), then
\* catchError(handleError), then the subscriber
MlRespond(k, resp) ==
  /\ ml.phase = "run"
  /\ k \in DOMAIN ml.reqs
  /\ ml.reqs[k].state = "pending"
  /\ LET rq == ml.reqs[k]
         gate == InterceptPipe(rq.url, HttpSource(rq.url, resp))
         failed == gate.out[1].kind = "error"
         piped == IF ~failed THEN gate.out
                  ELSE IF rq.svc = "forecast"
                  THEN MlForecastHandleError(gate.out[1].error)
                  ELSE MlClusteringHandleError(gate.out[1].error)
         entry == IF ~failed THEN gate.out[1].value
                  ELSE IF rq.svc = "forecast" THEN MockForecast
                  ELSE MockProductCluster
         results == ObjSet(ml.results, rq.key, entry)
         completed == ml.completed + 1
         tokenAfter == IF gate.effects = <<>> THEN token ELSE JNull
     IN /\ IF failed /\ ShouldRetry(rq.attempts)
           THEN /\ ml' = [ml EXCEPT !.reqs[k].attempts = @ + 1,
                                    !.reqs[k].tokenAtDispatch = tokenAfter]
                /\ posts' = posts + 1
           ELSE /\ posts' = posts
                /\ ml' = IF Batch(ml.op)
                         THEN [ml EXCEPT
                                 !.reqs[k].state = IF failed THEN "failed" ELSE "ok",
                                 !.results = results,
                                 !.completed = completed,
                                 !.out = IF completed = Len(ml.items)
                                         THEN <<NextN(results), CompleteN>>
                                         ELSE @]
                         ELSE [ml EXCEPT
                                 !.reqs[k].state = IF failed THEN "failed" ELSE "ok",
                                 !.out = piped]
        /\ token' = tokenAfter
        /\ teardowns' = IF gate.effects = <<>> THEN teardowns
                        ELSE Append(teardowns,
                               [sent |-> rq.tokenAtDispatch, ended |-> token])
  /\ UNCHANGED <<apiUrl, graphqlUrl, urlRead, subs, dev>>

InitMl ==
  /\ token \in {JNull, JStr("T1")}
  /\ apiUrl = ConfiguredApiUrl
  /\ graphqlUrl = ResolveGraphqlUrl(apiUrl)
  /\ urlRead = JUndef
  /\ subs = <<IdleSub>>
  /\ posts = 0
  /\ teardowns = <<>>
  /\ ml = IdleMl
  /\ dev = NewComponent

NextMl ==
  \/ \E c \in Categorias : predictForecast(c)
  \/ \E p \in Products : predictSingleProduct(p)
  \/ getClusterAnalysis
  \/ \E cs \in CategoriaLists : getForecastMultipleCategories(cs)
  \/ \E ps \in ProductLists : predictMultipleProducts(ps)
  \/ \E k \in 1..MaxItems, r \in MlResponses : MlRespond(k, r)

SpecMl == InitMl /\ [][NextMl]_vars

\* ------------------------------------------------------------------------
\* DevolucionesComponent: the pedido id input
\* ------------------------------------------------------------------------
Digits == "0123456789"

IsDigit(c) == \E k \in 1..Len(Digits) : SubSeq(Digits, k, k) = c

DigitValue(c) == (CHOOSE k \in 1..Len(Digits) : SubSeq(Digits, k, k) = c) - 1

\* String.prototype.trim()
RECURSIVE Trim(_)
Trim(str) ==
  IF Len(str) = 0 THEN ""
  ELSE IF SubSeq(str, 1, 1) = " " THEN Trim(SubSeq(str, 2, Len(str)))
  ELSE IF SubSeq(str, Len(str), Len(str)) = " "
  THEN Trim(SubSeq(str, 1, Len(str) - 1))
  ELSE str

\* str without its leading blanks
RECURSIVE TrimStart(_)
TrimStart(str) ==
  IF Len(str) > 0 /\ SubSeq(str, 1, 1) = " "
  THEN TrimStart(SubSeq(str, 2, Len(str))) ELSE str

\* the value of the leading digits of str, after acc
RECURSIVE DigitsValue(_, _)
DigitsValue(str, acc) ==
  IF Len(str) = 0 \/ ~IsDigit(SubSeq(str, 1, 1)) THEN acc
  ELSE DigitsValue(SubSeq(str, 2, Len(str)),
         acc * 10 + DigitValue(SubSeq(str, 1, 1)))

\* parseInt(str, 10) of an unsigned input: leading blanks skipped, then the
\* digits up to the first other character; NaN (here -1) when there is none
ParseInt(str) ==
  LET body == TrimStart(str)
  IN IF Len(body) = 0 \/ ~IsDigit(SubSeq(body, 1, 1)) THEN -1
     ELSE DigitsValue(body, 0)

\* what the user types into the pedido id input
PedidoInputs == {"", " ", "1", "2", "2x", "x"}

\* PedidoService.obtenerPedido as the backend answers it: pedido 1 with its
\* client and a product, pedido 2 with no client and no products left, no
\* other pedido
Pedido(id) ==
  IF id = 1
  THEN JObj([id |-> JNum(1),
             usuario |-> JObj([id |-> JNum(11), nombre |-> JStr("Ana")]),
             detalle_pedidos |-> JArr(<<JObj([id |-> JNum(101)])>>)])
  ELSE JObj([id |-> JNum(2), usuario |-> JUndef,
             detalle_pedidos |-> JArr(<<>>)])

obtenerPedido(id) ==
  IF id \in {1, 2}
  THEN <<NextN(JObj([data |-> Pedido(id)])), CompleteN>>
  ELSE ThrowError(NewError("Pedido no encontrado"))

\* the three fields after a failed or refused lookup
Cleared(d) ==
  [d EXCEPT !.productosDelPedido = JArr(<<>>), !.clienteSeleccionado = JNull,
            !.usuario_id = 0]

onPedidoIdChange(value) ==
  /\ dev' = [dev EXCEPT !.typed = JStr(value)]
  /\ UNCHANGED <<token, apiUrl, graphqlUrl, urlRead, subs, posts, teardowns, ml>>

\* buscarPedidoPorId up to the subscription of obtenerPedido
buscarPedidoPorId(d, pedidoIdStr) ==
  LET pedidoId == ParseInt(pedidoIdStr)
  IN IF pedidoId = 0 \/ pedidoId = -1 THEN Cleared(d)
     ELSE [d EXCEPT !.lookups = Append(@, pedidoId)]

\* 500 ms have passed since the last input: debounceTime lets it through,
\* distinctUntilChanged drops it when it is the value let through before
DebounceElapsed ==
  /\ dev.typed # JUndef
  /\ Len(dev.lookups) < MaxLookups
  /\ LET pedidoId == dev.typed.v
         d == [dev EXCEPT !.typed = JUndef, !.last = dev.typed]
     IN dev' = IF dev.last = dev.typed THEN [dev EXCEPT !.typed = JUndef]
               ELSE IF pedidoId # "" /\ Trim(pedidoId) # ""
               THEN buscarPedidoPorId(d, pedidoId)
               ELSE [d EXCEPT !.productosDelPedido = JArr(<<>>),
                              !.clienteSeleccionado = JNull]
  /\ UNCHANGED <<token, apiUrl, graphqlUrl, urlRead, subs, posts, teardowns, ml>>

\* the answer to the k-th lookup under way reaches its subscriber
LookupRespond(k) ==
  /\ k \in DOMAIN dev.lookups
  /\ LET src == obtenerPedido(dev.lookups[k])
         rest == [dev EXCEPT !.lookups =
                    SubSeq(@, 1, k - 1) \o SubSeq(@, k + 1, Len(@))]
         pedido == Get(src[1].value, "data")
         usuario == Get(pedido, "usuario")
         detalle == Get(pedido, "detalle_pedidos")
     IN dev' = IF src[1].kind = "error" THEN Cleared(rest)
               ELSE [rest EXCEPT
                       !.usuario_id =
                         IF Truthy(usuario) /\ Truthy(Get(usuario, "id"))
                         THEN Get(usuario, "id").v ELSE 0,
                       !.clienteSeleccionado =
                         IF Truthy(usuario) /\ Truthy(Get(usuario, "id"))
                         THEN usuario ELSE JNull,
                       !.productosDelPedido =
                         IF Truthy(detalle) THEN detalle ELSE JArr(<<>>)]
  /\ UNCHANGED <<token, apiUrl, graphqlUrl, urlRead, subs, posts, teardowns, ml>>

InitDev ==
  /\ token \in {JNull, JStr("T1")}
  /\ apiUrl = ConfiguredApiUrl
  /\ graphqlUrl = ResolveGraphqlUrl(apiUrl)
  /\ urlRead = JUndef
  /\ subs = <<IdleSub>>
  /\ posts = 0
  /\ teardowns = <<>>
  /\ ml = IdleMl
  /\ dev = NewComponent

NextDev ==
  \/ \E v \in PedidoInputs : onPedidoIdChange(v)
  \/ DebounceElapsed
  \/ \E k \in 1..MaxLookups : LookupRespond(k)

SpecDev == InitDev /\ [][NextDev]_vars

\* ------------------------------------------------------------------------
\* Properties
\* ------------------------------------------------------------------------
Done(i) == subs[i].phase = "done"

\* the URL classes the claims speak of
OnAllowlist(url) == Includes(url, "auth/login") \/ Includes(url, "auth/register")

UploadUrl(url) == Includes(url, "api.cloudinary.com")

GraphqlTarget(url) == Includes(url, "/graphql")

Sent(i) == subs[i].phase = "sent"

CountKind(seq, kind) == Cardinality({k \in 1..Len(seq) : seq[k].kind = kind})

\* the errors member of a body, undefined when the body has none
ErrorsOf(body) == OptGet(body, "errors")

DataOf(body) == OptGet(body, "data")

NonEmptyErrors(body) ==
  ErrorsOf(body).t = "array" /\ Len(ErrorsOf(body).v) > 0

NoErrors(body) ==
  \/ ErrorsOf(body) = JUndef
  \/ ErrorsOf(body).t = "array" /\ Len(ErrorsOf(body).v) = 0

\* a GraphQL call answered with a 2xx envelope
Answered(i) ==
  Done(i) /\ subs[i].svc = "graphql" /\ subs[i].response.ok
    /\ subs[i].response.body.t = "object"

\* a request that failed with status 401
Failed401(i) ==
  Done(i) /\ ~subs[i].response.ok /\ subs[i].response.status = 401

OriginalError(i) ==
  HttpErrorResponse(subs[i].url, subs[i].response.status, subs[i].response.body)

\* C1: a 2xx envelope with a non-empty errors array gives the caller an
\* error and no data, whatever data holds.
C1_ErrorsWin ==
  \A i \in DOMAIN subs :
    (Answered(i) /\ NonEmptyErrors(subs[i].response.body)) =>
      /\ CountKind(subs[i].delivered, "error") = 1
      /\ CountKind(subs[i].delivered, "next") = 0

C1_Witness ==
  \E i \in DOMAIN subs :
    /\ Answered(i) /\ NonEmptyErrors(subs[i].response.body)
    /\ DataOf(subs[i].response.body) = JObj([ping |-> JBool(TRUE)])
    /\ subs[i].delivered[1].kind = "error"

\* an error entry that speaks of authentication
MentionsAuth(e) ==
  \/ /\ Get(e, "message").t = "string"
     /\ \/ Includes(ToLowerCase(Get(e, "message").v), "unauthorized")
        \/ Includes(ToLowerCase(Get(e, "message").v), "authentication")
  \/ OptGet(Get(e, "extensions"), "code") = JStr("UNAUTHENTICATED")

HasAuthEntry(body) ==
  /\ ErrorsOf(body).t = "array"
  /\ \E k \in 1..Len(ErrorsOf(body).v) : MentionsAuth(ErrorsOf(body).v[k])

Protected401(i) ==
  Failed401(i) /\ ~OnAllowlist(subs[i].url) /\ ~UploadUrl(subs[i].url)

C3_PublicNoTeardown ==
  \A i \in DOMAIN subs :
    (Failed401(i) /\ OnAllowlist(subs[i].url)) =>
      /\ subs[i].effects = <<>>
      /\ subs[i].raised = <<ErrorN(OriginalError(i))>>
      /\ CountKind(subs[i].delivered, "error") = 1
      /\ CountKind(subs[i].delivered, "next") = 0

C3_Witness ==
  \E i \in DOMAIN subs :
    /\ Failed401(i) /\ OnAllowlist(subs[i].url) /\ ~UploadUrl(subs[i].url)
    /\ Includes(subs[i].url, "auth/register")
    /\ token # JNull
    /\ subs[i].effects = <<>>
    /\ subs[i].delivered = <<ErrorN(OriginalError(i))>>

\* C4 as stated: with no session token, every request that is neither public
\* nor an upload goes out with no Authorization header.
C4_Original ==
  \A i \in DOMAIN subs :
    (/\ Sent(i) /\ ~Truthy(subs[i].tokenAtDispatch)
     /\ ~OnAllowlist(subs[i].req.url) /\ ~UploadUrl(subs[i].req.url)) =>
      "Authorization" \notin DOMAIN subs[i].wire.headers

\* C4 amended: with no session token at dispatch authInterceptor forwards
\* the request as the caller built it and adds no Authorization header; a
\* GraphQL request carries one only if execute read a token when it was
\* called, and no request carries an empty or bare 'Bearer ' header.
C4_NoHeaderAdded ==
  \A i \in DOMAIN subs :
    (Sent(i) /\ ~Truthy(subs[i].tokenAtDispatch)) =>
      /\ subs[i].wire = subs[i].req
      /\ subs[i].svc = "graphql" =>
           ("Authorization" \in DOMAIN subs[i].wire.headers
              <=> Truthy(subs[i].tokenAtCall))
      /\ "Authorization" \in DOMAIN subs[i].wire.headers =>
           subs[i].wire.headers["Authorization"] \notin {"", "Bearer "}

C4_Witness ==
  \E i \in DOMAIN subs :
    /\ Sent(i) /\ subs[i].svc = "graphql"
    /\ subs[i].tokenAtDispatch = JNull /\ subs[i].tokenAtCall = JNull
    /\ DOMAIN subs[i].wire.headers = {"Content-Type"}

\* C5: a request to a URL that contains api.cloudinary.com is forwarded as
\* it is, with no Authorization header attached, token or not, and whatever
\* else the URL matches.
C5_UploadBypass ==
  \A i \in DOMAIN subs :
    (Sent(i) /\ UploadUrl(subs[i].req.url)) =>
      /\ subs[i].wire = subs[i].req
      /\ "Authorization" \in DOMAIN subs[i].wire.headers =>
           "Authorization" \in DOMAIN subs[i].req.headers

C5_Witness ==
  \E i \in DOMAIN subs :
    /\ Sent(i) /\ UploadUrl(subs[i].req.url)
    /\ ~OnAllowlist(subs[i].req.url)
    /\ Truthy(subs[i].tokenAtDispatch)
    /\ "Authorization" \notin DOMAIN subs[i].wire.headers

\* C6: a finished GraphQL call gives its caller exactly one outcome, a data
\* payload or an error, and a failed exchange always gives the error.
C6_ExactlyOneOutcome ==
  \A i \in DOMAIN subs :
    (Done(i) /\ subs[i].svc = "graphql") =>
      /\ CountKind(subs[i].delivered, "next")
           + CountKind(subs[i].delivered, "error") = 1
      /\ ~subs[i].response.ok => CountKind(subs[i].delivered, "error") = 1

C6_Witness ==
  \E i \in DOMAIN subs :
    /\ Done(i) /\ subs[i].svc = "graphql"
    /\ ~subs[i].response.ok /\ subs[i].response.status = 503
    /\ Len(subs[i].delivered) = 1
    /\ subs[i].delivered[1].kind = "error"

\* C7: a 2xx envelope with no errors member or an empty errors array and an
\* object as data gives the caller exactly that data.
C7_DataReturned ==
  \A i \in DOMAIN subs :
    (/\ Answered(i) /\ NoErrors(subs[i].response.body)
     /\ DataOf(subs[i].response.body).t = "object") =>
      subs[i].delivered = <<NextN(DataOf(subs[i].response.body)), CompleteN>>

C7_Witness ==
  \E i \in DOMAIN subs :
    /\ Answered(i)
    /\ ErrorsOf(subs[i].response.body) = JArr(<<>>)
    /\ subs[i].delivered = <<NextN(JObj([ping |-> JBool(TRUE)])), CompleteN>>

\* C8: the body execute builds holds query, the document; variables only
\* when variables is defined and has a key; operationName only when it is
\* defined; and no null or empty member.
C8_BodyShape ==
  \A i \in DOMAIN subs :
    subs[i].phase = "built" =>
      LET b == subs[i].req.body
          a == subs[i].args
      IN /\ "query" \in DOMAIN b /\ b["query"] = JStr(a.operation)
         /\ DOMAIN b \subseteq {"query", "variables", "operationName"}
         /\ "variables" \in DOMAIN b <=>
              (a.variables.t = "object" /\ DOMAIN a.variables.v # {})
         /\ "variables" \in DOMAIN b => b["variables"] = a.variables
         /\ "operationName" \in DOMAIN b =>
              (a.operationName # JUndef /\ b["operationName"] = a.operationName)
         /\ \A k \in DOMAIN b : b[k] \notin {JUndef, JNull, JStr(""), EmptyObj}

C8_Witness ==
  \E i \in DOMAIN subs :
    /\ subs[i].phase = "built"
    /\ subs[i].args.variables = EmptyObj
    /\ subs[i].args.operationName = JStr("")
    /\ DOMAIN subs[i].req.body = {"query"}

\* C9 as stated: for every base with at most one trailing slash, the base
\* and the base followed by a slash resolve to the same endpoint.
C9_Original ==
  ~EndsWith(apiUrl, "//") => graphqlUrl = ResolveGraphqlUrl(apiUrl \o "/")

\* C9 amended: a base without a trailing slash and that base followed by one
\* slash resolve to the same endpoint, the base without the slash followed
\* by /graphql, and getGraphQLUrl returns that endpoint at any time.
C9_EndpointResolved ==
  /\ ~EndsWith(apiUrl, "/") =>
       /\ graphqlUrl = apiUrl \o "/graphql"
       /\ ResolveGraphqlUrl(apiUrl \o "/") = graphqlUrl
  /\ (EndsWith(apiUrl, "/") /\ ~EndsWith(apiUrl, "//")) =>
       graphqlUrl = apiUrl \o "graphql"
  /\ urlRead \in {JUndef, JStr(graphqlUrl)}
  /\ \A i \in DOMAIN subs :
       subs[i].phase \in {"built", "sent"} => subs[i].req.url = graphqlUrl

C9_Witness ==
  /\ apiUrl = "h/"
  /\ urlRead = JStr("h/graphql")
  /\ Done(1)

\* the text createGraphQLError is to give one error
RECURSIVE DotJoin(_)
DotJoin(path) ==
  IF Len(path) = 0 THEN ""
  ELSE (IF Head(path).t = "number" THEN ToString(Head(path).v) ELSE Head(path).v)
         \o (IF Len(path) = 1 THEN "" ELSE "." \o DotJoin(Tail(path)))

EntryText(e) ==
  LET code == OptGet(Get(e, "extensions"), "code")
      msg == Get(e, "message")
      path == Get(e, "path")
  IN (IF code.t = "string" /\ code.v # "" THEN "[" \o code.v \o "] " ELSE "")
       \o (IF msg.t = "string" THEN msg.v ELSE "")
       \o (IF path.t = "array" /\ Len(path.v) > 0
           THEN " (path: " \o DotJoin(path.v) \o ")" ELSE "")

RECURSIVE CombinedText(_)
CombinedText(es) ==
  IF Len(es) = 0 THEN ""
  ELSE EntryText(Head(es))
         \o (IF Len(es) = 1 THEN "" ELSE "; " \o CombinedText(Tail(es)))

\* C10: the message thrown for a 2xx envelope with errors is the errors'
\* texts in their order joined with '; ', each text the message with
\* [code] before it when there is a code and the dot-joined path after it
\* when there is a non-empty path; one NOT_FOUND error gives
\* '[NOT_FOUND] Not found'.
C10_CombinedMessage ==
  \A i \in DOMAIN subs :
    (Answered(i) /\ NonEmptyErrors(subs[i].response.body)) =>
      LET es == ErrorsOf(subs[i].response.body).v
      IN /\ subs[i].delivered = <<ErrorN(NewError(CombinedText(es)))>>
         /\ es = <<JObj([message |-> JStr("Not found"),
                         extensions |-> JObj([code |-> JStr("NOT_FOUND")])])>>
              => subs[i].delivered[1].error.message = "[NOT_FOUND] Not found"

C10_Witness ==
  \E i \in DOMAIN subs :
    /\ Answered(i) /\ NonEmptyErrors(subs[i].response.body)
    /\ Len(ErrorsOf(subs[i].response.body).v) = 2
    /\ subs[i].delivered =
         <<ErrorN(NewError("[UNAUTHENTICATED] Token expired (path: user.0); [NOT_FOUND] Not found"))>>

\* a GraphQL call whose exchange failed
GraphqlFailed(i) ==
  Done(i) /\ subs[i].svc = "graphql" /\ ~subs[i].response.ok

\* the message of the error a finished call gave its caller
Thrown(i) == subs[i].delivered[1].error.message

\* the message the caller of a GraphQL call gets for a failed exchange
MessageFor(url, status, body) ==
  ExecutePipe(InterceptPipe(url, HttpSource(url,
    [ok |-> FALSE, status |-> status, body |-> body])).out)[1].error.message

\* C11 as stated: the message thrown for a failed exchange is the same for
\* every body the failure could have carried with the same status; status 0
\* gives the connectivity message and a 400 none of the body's errors.
C11_Original ==
  \A i \in DOMAIN subs :
    GraphqlFailed(i) =>
      /\ \A b \in ErrorBodies :
           MessageFor(subs[i].url, subs[i].response.status, b) = Thrown(i)
      /\ subs[i].response.status = 0 =>
           Thrown(i) = "Error de conexión. Verifica que el servidor esté disponible."
      /\ subs[i].response.status = 400 => ~Includes(Thrown(i), "Token expired")

\* C12 as stated: every error a GraphQL call gives its caller has a
\* message that is not the empty string.
C12_Original ==
  \A i \in DOMAIN subs :
    (/\ Done(i) /\ subs[i].svc = "graphql"
     /\ CountKind(subs[i].delivered, "error") = 1) =>
      Thrown(i) # ""

\* the calls that have been dispatched
Dispatched == {i \in DOMAIN subs : subs[i].phase \in {"sent", "done"}}

\* C13: every dispatched call has sent exactly one HTTP request: a failure
\* sends none again, a finished call holds no request back, and a second
\* call is sent even when a first like it has been answered.
C13_OnePostPerDispatch ==
  /\ posts = Cardinality(Dispatched)
  /\ \A i \in DOMAIN subs :
       Done(i) => /\ "wire" \notin DOMAIN subs[i]
                  /\ "req" \notin DOMAIN subs[i]
                  /\ Len(subs[i].delivered) \in {1, 2}

C13_Witness ==
  /\ posts = 2
  /\ \A i \in {1, 2} : GraphqlFailed(i)
  /\ subs[1].response.status = 401
  /\ subs[2].response.status = 500

\* C14: a step mutate can take with a document, variables and an operation
\* name is a step query can take with them, and the other way round: the
\* same request is built, and all that follows depends on the request only.
C14_QueryIsMutate ==
  [][\A i \in DOMAIN subs, d \in Documents, v \in VariablesIn,
        o \in OperationNames :
       mutate(i, d, v, o) <=> query(i, d, v, o)]_vars

C14_Witness ==
  \E i \in DOMAIN subs :
    /\ subs[i].phase = "built"
    /\ subs[i].args.operation = "mutation { save }"
    /\ subs[i].args.operationName = JStr("Ping")
    /\ DOMAIN subs[i].req.body = {"query", "variables", "operationName"}

\* C15: a method that GraphQL does not offer gives its caller one error
\* that names the method and says it is not available, and no value, and
\* sends nothing to the backend, whatever its arguments.
C15_DirectError ==
  \A i \in DOMAIN subs :
    subs[i].phase = "direct" =>
      /\ Len(subs[i].delivered) = 1
      /\ subs[i].delivered[1].kind = "error"
      /\ Includes(Thrown(i), subs[i].method \o " no está disponible")
      /\ CountKind(subs[i].delivered, "next") = 0
      /\ posts = 0

C15_Witness ==
  \E i \in DOMAIN subs :
    /\ subs[i].phase = "direct"
    /\ subs[i].method = "deleteDetallesDevolucion"
    /\ subs[i].args = <<2, 1>>
    /\ token # JNull
    /\ posts = 0

\* the class of a failed exchange, by its status
StatusClass(status) ==
  IF status = 0 THEN "connectivity"
  ELSE IF status = 401 THEN "unauthorized"
  ELSE IF status = 403 THEN "forbidden"
  ELSE IF status >= 500 THEN "server"
  ELSE "generic"

\* the class a thrown message belongs to
MessageClasses(message) ==
  {c \in {"connectivity", "unauthorized", "forbidden", "server", "generic"} :
     CASE c = "connectivity" ->
            message = "Error de conexión. Verifica que el servidor esté disponible."
       [] c = "unauthorized" ->
            message = "No autorizado. Por favor, inicia sesión nuevamente."
       [] c = "forbidden" ->
            message = "Acceso denegado. No tienes permisos para esta operación."
       [] c = "server" ->
            message = "Error del servidor. Por favor, intenta más tarde."
       [] OTHER -> Includes(message, "Error HTTP ")}

\* C16 as stated: the message thrown for a failed exchange is of the one
\* class its status selects: 0 connectivity, 401 unauthorized, 403
\* forbidden, 500 and above server, any other status the generic message
\* with the status in it.
C16_Original ==
  \A i \in DOMAIN subs :
    GraphqlFailed(i) =>
      /\ MessageClasses(Thrown(i)) = {StatusClass(subs[i].response.status)}
      /\ StatusClass(subs[i].response.status) = "generic" =>
           Includes(Thrown(i),
             "Error HTTP " \o ToString(subs[i].response.status) \o ": ")

NoDataError == NewError("La respuesta GraphQL no contiene datos")

\* C17: a 2xx envelope with no errors, or an empty errors array, and data
\* absent or null gives the caller the 'no data' error and no value; with
\* a non-empty errors array the error is that of the errors, data absent
\* or not.
C17_NoData ==
  \A i \in DOMAIN subs :
    (Answered(i) /\ DataOf(subs[i].response.body) \in {JUndef, JNull}) =>
      /\ ErrorsOf(subs[i].response.body) \in {JUndef, JNull, JArr(<<>>)} =>
           subs[i].delivered = <<ErrorN(NoDataError)>>
      /\ NonEmptyErrors(subs[i].response.body) =>
           /\ CountKind(subs[i].delivered, "error") = 1
           /\ subs[i].delivered[1].error # NoDataError

C17_Witness ==
  \E i \in DOMAIN subs :
    /\ Answered(i)
    /\ subs[i].response.body = Envelope(JArr(<<>>), JNull)
    /\ subs[i].delivered = <<ErrorN(NoDataError)>>

\* a 401 on a GraphQL target that is neither public nor an upload endpoint
Graphql401(i) == Protected401(i) /\ GraphqlTarget(subs[i].url)

C19_RestAlways ==
  \A i \in DOMAIN subs :
    (Protected401(i) /\ ~GraphqlTarget(subs[i].url)) =>
      /\ subs[i].effects = <<"cerrarSesion", "navigate /login">>
      /\ subs[i].raised = <<ErrorN(OriginalError(i))>>

C19_Witness ==
  \E i \in DOMAIN subs :
    /\ Protected401(i) /\ ~GraphqlTarget(subs[i].url)
    /\ subs[i].response.body =
         Envelope(JArr(<<JObj([message |-> JStr("Not found"),
                    extensions |-> JObj([code |-> JStr("NOT_FOUND")])])>>), JUndef)
    /\ subs[i].effects = <<"cerrarSesion", "navigate /login">>

\* C20: a response that is not a failure with status 401 changes nothing:
\* the token stays, no teardown and no navigation run, no request is sent,
\* and a failure reaches the caller of the HTTP call as it came.
C20_Only401 ==
  [][\A i \in DOMAIN subs :
       (/\ Sent(i) /\ subs'[i].phase = "done"
        /\ subs'[i].response.ok \/ subs'[i].response.status # 401) =>
         /\ token' = token
         /\ posts' = posts
         /\ subs'[i].effects = <<>>
         /\ ~subs'[i].response.ok =>
              subs'[i].raised =
                <<ErrorN(HttpErrorResponse(subs'[i].url,
                    subs'[i].response.status, subs'[i].response.body))>>]_vars

C20_Witness ==
  \E i \in DOMAIN subs :
    /\ GraphqlFailed(i) /\ subs[i].response.status = 200
    /\ HasAuthEntry(subs[i].response.body)
    /\ subs[i].effects = <<>>
    /\ token # JNull

\* C21 as stated: every error response on a request that is not an upload
\* is re-raised by authInterceptor as the error it was, whatever its
\* status, public or not, teardown or not.
C21_Original ==
  \A i \in DOMAIN subs :
    (Done(i) /\ ~subs[i].response.ok /\ ~UploadUrl(subs[i].url)) =>
      subs[i].raised = <<ErrorN(OriginalError(i))>>

\* C22: a request to a URL of the public allowlist that is not an upload
\* is forwarded as the caller built it, with no Authorization header, also
\* when there is a session token.
C22_PublicNoToken ==
  \A i \in DOMAIN subs :
    (Sent(i) /\ OnAllowlist(subs[i].req.url) /\ ~UploadUrl(subs[i].req.url)) =>
      /\ subs[i].wire = subs[i].req
      /\ "Authorization" \notin DOMAIN subs[i].wire.headers

C22_Witness ==
  \E i \in DOMAIN subs :
    /\ Sent(i) /\ ~UploadUrl(subs[i].req.url)
    /\ subs[i].req.url = "http://localhost:8081/mrp/auth/login"
    /\ subs[i].tokenAtDispatch = JStr("T2")
    /\ "Authorization" \notin DOMAIN subs[i].wire.headers

\* C23: with a session token T at dispatch, a request that is neither an
\* upload nor public goes out as a copy whose Authorization header is
\* 'Bearer T', in the place of any the caller set, with every other header,
\* the URL and the body as they were; the caller's request keeps its own.
C23_BearerReplaces ==
  \A i \in DOMAIN subs :
    (/\ Sent(i) /\ ~UploadUrl(subs[i].req.url) /\ ~OnAllowlist(subs[i].req.url)
     /\ subs[i].tokenAtDispatch.t = "string") =>
      /\ subs[i].wire.headers =
           [h \in DOMAIN subs[i].req.headers \cup {"Authorization"} |->
              IF h = "Authorization"
              THEN "Bearer " \o subs[i].tokenAtDispatch.v
              ELSE subs[i].req.headers[h]]
      /\ subs[i].wire.url = subs[i].req.url
      /\ subs[i].wire.body = subs[i].req.body
      /\ subs[i].req.url = "https://api.openai.com/v1/chat/completions" =>
           subs[i].req.headers["Authorization"] = "Bearer sk-key"

C23_Witness ==
  \E i \in DOMAIN subs :
    /\ Sent(i)
    /\ subs[i].req.url = "https://api.openai.com/v1/chat/completions"
    /\ subs[i].req.headers["Authorization"] = "Bearer sk-key"
    /\ subs[i].wire.headers["Authorization"] = "Bearer T2"

C25_UploadUntouched ==
  \A i \in DOMAIN subs :
    (Done(i) /\ UploadUrl(subs[i].url) /\ ~subs[i].response.ok) =>
      /\ subs[i].effects = <<>>
      /\ subs[i].delivered = <<ErrorN(OriginalError(i))>>

C25_Witness ==
  \E i \in DOMAIN subs :
    /\ Failed401(i)
    /\ subs[i].url = "https://api.cloudinary.com/v1/upload"
    /\ subs[i].effects = <<>>
    /\ teardowns = <<>>
    /\ token # JNull

\* C26: with calls in flight together, the result a finished call gave its
\* caller is the one its own response yields, and the arrival of a response
\* for one call leaves every other call, its request and its result, as it
\* was.
C26_Independent ==
  /\ [](\A i \in DOMAIN subs :
          (Done(i) /\ subs[i].svc = "graphql") =>
            subs[i].delivered =
              ExecutePipe(InterceptPipe(subs[i].url,
                HttpSource(subs[i].url, subs[i].response)).out))
  /\ [][\A i, j \in DOMAIN subs :
          (i # j /\ Sent(i) /\ subs'[i].phase = "done") => subs'[j] = subs[j]]_vars

C26_Witness ==
  /\ Done(1) /\ Done(2)
  /\ subs[1].delivered[1].kind = "error"
  /\ subs[1].response.status = 500
  /\ subs[2].delivered = <<NextN(JObj([ping |-> JBool(TRUE)])), CompleteN>>

\* a 401 that authInterceptor takes for a lost session
Qualifies(url, resp) ==
  /\ ~resp.ok /\ resp.status = 401
  /\ ~OnAllowlist(url) /\ ~UploadUrl(url)
  /\ \/ ~GraphqlTarget(url)
     \/ ~Truthy(ErrorsOf(resp.body))
     \/ HasAuthEntry(resp.body)

\* C27: a qualifying 401 ends the session there is when it arrives, also a
\* session newer than the one its request was sent under, and every such
\* 401 of the calls in flight runs the teardown once more.
C27_LateTeardown ==
  /\ [][\A i \in DOMAIN subs :
          (/\ Sent(i) /\ subs'[i].phase = "done"
           /\ Qualifies(subs[i].req.url, subs'[i].response)) =>
            /\ token' = JNull
            /\ subs'[i].effects = <<"cerrarSesion", "navigate /login">>
            /\ teardowns' = Append(teardowns,
                 [sent |-> subs[i].tokenAtDispatch, ended |-> token])]_vars
  /\ [](Len(teardowns) =
          Cardinality({i \in DOMAIN subs :
            Done(i) /\ Qualifies(subs[i].url, subs[i].response)}))

C27_Witness ==
  /\ Len(teardowns) = 2
  /\ teardowns[1] = [sent |-> JStr("T1"), ended |-> JStr("T2")]
  /\ \A i \in {1, 2} : Failed401(i)
  /\ token = JNull

\* a batch call all of whose requests have succeeded or failed
BatchSettled ==
  /\ ml.phase = "run" /\ Batch(ml.op)
  /\ \A k \in DOMAIN ml.reqs : ml.reqs[k].state # "pending"

\* C28 as stated: once every request of a batch call has succeeded or
\* failed, the call has given its caller one combined result and completed,
\* with an entry for every item asked about and no error, for every list,
\* the empty one and one with a repeated name too.
C28_Original ==
  BatchSettled =>
    /\ Len(ml.out) = 2
    /\ ml.out[1].kind = "next" /\ ml.out[2].kind = "complete"
    /\ \A k \in DOMAIN ml.items : ml.items[k] \in DOMAIN ml.out[1].value.v

\* C29: a request of predictForecast, predictSingleProduct or
\* getClusterAnalysis makes three attempts at most; its caller gets an error
\* only after three failed attempts, one error whose message names the
\* failure, and gets the response of the first attempt that succeeds, after
\* which no attempt is made.
C29_RetryTwice ==
  (ml.phase = "run" /\ ~Batch(ml.op) /\ Len(ml.reqs) = 1) =>
    /\ ml.reqs[1].attempts \in 1..3
    /\ posts = ml.reqs[1].attempts
    /\ ml.reqs[1].state = "pending" <=> ml.out = <<>>
    /\ ml.reqs[1].state = "failed" =>
         /\ ml.reqs[1].attempts = 3
         /\ Len(ml.out) = 1 /\ ml.out[1].kind = "error"
         /\ ml.out[1].error.cls = "Error" /\ ml.out[1].error.message # ""
    /\ ml.reqs[1].state = "ok" =>
         (Len(ml.out) = 2 /\ ml.out[1].kind = "next" /\ ml.out[2].kind = "complete")

C29_Witness ==
  /\ ml.phase = "run" /\ ml.op = "getClusterAnalysis"
  /\ ml.reqs[1].state = "failed"
  /\ posts = 3
  /\ ml.out = <<ErrorN(NewError("Servicio de clustering ML no encontrado."))>>

\* the pedido id the component last looked up, 0 when the last input let
\* through was none
LastPedidoId ==
  IF dev.last = JUndef THEN 0
  ELSE IF dev.last.v \in {"1", "2x", "2"} THEN (IF dev.last.v = "1" THEN 1 ELSE 2)
  ELSE 0

\* C30 as stated: when nothing typed waits for the debounce and every
\* lookup has been answered, the client, the products and the user id are
\* those of the pedido id that passed the debounce last, in whatever order
\* the answers came.
C30_Original ==
  (dev.typed = JUndef /\ dev.lookups = <<>> /\ LastPedidoId # 0) =>
    IF LastPedidoId = 1
    THEN /\ dev.usuario_id = 11
         /\ dev.clienteSeleccionado
              = JObj([id |-> JNum(11), nombre |-> JStr("Ana")])
         /\ dev.productosDelPedido = JArr(<<JObj([id |-> JNum(101)])>>)
    ELSE /\ dev.usuario_id = 0
         /\ dev.clienteSeleccionado = JNull
         /\ dev.productosDelPedido = JArr(<<>>)

====
